---- MODULE Spec2Model ----
(***************************************************************************)
(* A model of dehydrate/fields.py: the spec-shape predicates, Field,       *)
(* SimpleField and ComplexField.  Python values are records of one shape   *)
(* (kind, str, n, items, vals); a call returns an outcome: a value, or a   *)
(* raised exception with its message.                                      *)
(***************************************************************************)
EXTENDS Integers, Sequences, FiniteSets, TLC

\* ------------------------------------------------------------ bounds
\* Largest number of entries of a mapping spec.
MaxEntries == 3
\* Largest number of elements of a collection-valued attribute.
MaxItems == 2

\* ------------------------------------------------------------ Python values
V(k, s, m, xs, ys) == [kind |-> k, str |-> s, n |-> m, items |-> xs, vals |-> ys]

None == V("none", <<>>, 0, <<>>, <<>>)
\* A text value; its characters, one per element.
Str(chars) == V("str", chars, 0, <<>>, <<>>)
IntV(m) == V("int", <<>>, m, <<>>, <<>>)
Bool(b) == V("bool", <<>>, IF b THEN 1 ELSE 0, <<>>, <<>>)
True == Bool(TRUE)
False == Bool(FALSE)
Tuple(xs) == V("tuple", <<>>, 0, xs, <<>>)
List(xs) == V("list", <<>>, 0, xs, <<>>)
\* A set; xs is its iteration order.
SetOf(xs) == V("set", <<>>, 0, xs, <<>>)
\* A generator: iterable, with no length.
Generator(xs) == V("generator", <<>>, 0, xs, <<>>)
\* A mapping; keys in iteration order, vals the values in the same order.
Dict(keys, values) == V("dict", <<>>, 0, keys, values)
\* An object with identity id and the attributes names -> values.
Object(id, names, values) == V("object", <<>>, id, names, values)
\* A bound method of an object, taking `extra` arguments and returning ret.
Method(extra, ret) == V("method", <<>>, extra, <<>>, <<ret>>)
\* A bound method of the dehydrator named by member, taking the object.
DehydratorMethod(member, ret) == V("dehydrator_method", member, 1, <<>>, <<ret>>)
\* A dehydrator class.
Cls(name) == V("cls", <<name>>, 0, <<>>, <<>>)
\* operator.attrgetter(attr) and functools.partial(func, arg).
attrgetter(attr) == V("attrgetter", <<>>, 0, <<>>, <<attr>>)
partial(func, arg) == V("partial", <<>>, 0, <<func, arg>>, <<>>)

\* ------------------------------------------------------------ outcomes
NoMessage == [template |-> "", field_name |-> <<>>, class_name |-> ""]
Message(t) == [template |-> t, field_name |-> <<>>, class_name |-> ""]
Ok(v) == [exc |-> "", value |-> v, message |-> NoMessage]
Raise(e, m) == [exc |-> e, value |-> None, message |-> m]
Raised(o) == o.exc # ""

\* ------------------------------------------------------------ Python built-ins
\* bool(v)
Truthy(v) ==
    CASE v.kind = "none" -> FALSE
      [] v.kind \in {"bool", "int"} -> v.n # 0
      [] v.kind = "str" -> v.str # <<>>
      [] v.kind \in {"tuple", "list", "set", "dict"} -> v.items # <<>>
      [] OTHER -> TRUE

\* The elements iter(v) yields, in order.
Iter(v) ==
    IF v.kind = "str" THEN [i \in 1..Len(v.str) |-> Str(<<v.str[i]>>)]
    ELSE v.items

HasLen(v) == v.kind \in {"str", "tuple", "list", "set", "dict"}
PyLen(v) == IF v.kind = "str" THEN Len(v.str) ELSE Len(v.items)

IsSubstring(p, s) ==
    \E i \in 0..(Len(s) - Len(p)) : SubSeq(s, i + 1, i + Len(p)) = p

InSeq(x, xs) == \E i \in 1..Len(xs) : xs[i] = x

\* item in container
Contains(item, container) ==
    CASE container.kind = "str" ->
           IF item.kind = "str" THEN Ok(Bool(IsSubstring(item.str, container.str)))
           ELSE Raise("TypeError", Message("'in <string>' requires string as left operand"))
      [] container.kind \in {"dict", "tuple", "list", "set", "generator"} ->
           Ok(Bool(InSeq(item, container.items)))
      [] OTHER -> Raise("TypeError", Message("argument of type is not iterable"))

\* container[key]
GetItem(container, key) ==
    CASE container.kind = "dict" ->
           IF InSeq(key, container.items)
           THEN Ok(container.vals[CHOOSE i \in 1..Len(container.items) : container.items[i] = key])
           ELSE Raise("KeyError", Message("key"))
      [] container.kind \in {"str", "tuple", "list"} ->
           IF key.kind # "int"
           THEN Raise("TypeError", Message("indices must be integers"))
           ELSE IF key.n + 1 \in 1..PyLen(container)
           THEN Ok(Iter(container)[key.n + 1])
           ELSE Raise("IndexError", Message("index out of range"))
      [] OTHER -> Raise("TypeError", Message("object does not support indexing"))

\* container.get(key, default)
DictGet(container, key, default) ==
    IF container.kind # "dict"
    THEN Raise("AttributeError", Message("object has no attribute 'get'"))
    ELSE IF InSeq(key, container.items) THEN GetItem(container, key) ELSE Ok(default)

hasattr(obj, name) == obj.kind = "object" /\ InSeq(Str(name), obj.items)
getattr(obj, name) ==
    obj.vals[CHOOSE i \in 1..Len(obj.items) : obj.items[i] = Str(name)]

callable(v) == v.kind \in {"method", "dehydrator_method", "partial", "attrgetter", "cls"}

RECURSIVE Call(_, _)
\* f(*args)
Call(f, args) ==
    CASE f.kind \in {"method", "dehydrator_method"} ->
           IF Len(args) = f.n THEN Ok(f.vals[1])
           ELSE Raise("TypeError", Message("takes a different number of arguments"))
      [] f.kind = "attrgetter" ->
           IF Len(args) # 1
           THEN Raise("TypeError", Message("attrgetter expected 1 arguments"))
           ELSE IF f.vals[1].kind # "str"
           THEN Raise("TypeError", Message("attribute name must be a string"))
           ELSE IF hasattr(args[1], f.vals[1].str)
           THEN Ok(getattr(args[1], f.vals[1].str))
           ELSE Raise("AttributeError", Message("object has no attribute"))
      [] f.kind = "partial" -> Call(f.items[1], <<f.items[2]>> \o args)
      [] OTHER -> Raise("TypeError", Message("object is not callable"))

\* ------------------------------------------------------------ fields.py
\* some handy shortcuts
is_string(val) == val.kind = "str"
is_dict(val) == val.kind = "dict"
is_iterable(val) == val.kind \in {"str", "tuple", "list", "set", "dict", "generator"}
\* is_iterable(val) and len(val) == 2; len() of an iterable with no length raises.
is_pair(val) ==
    IF ~is_iterable(val) THEN Ok(False)
    ELSE IF ~HasLen(val) THEN Raise("TypeError", Message("object has no len()"))
    ELSE Ok(Bool(PyLen(val) = 2))

TARGET_FIELD_NAME == <<"t", "a", "r", "g", "e", "t">>
ITERABLE_FLAG_FIELD_NAME == <<"i", "t", "e", "r", "a", "b", "l", "e">>
DEHYDRATOR_FIELD_NAME == <<"d", "e", "h", "y", "d", "r", "a", "t", "o", "r">>
FIELDS_FIELD_NAME == <<"f", "i", "e", "l", "d", "s">>

\* raise SpecParsingError(message)
SpecParsingError(message) == Raise("SpecParsingError", message)

\* Field.validate_target_info: the hook, a no-op.
Field_validate_target_info(target_info) == Ok(None)

ComplexField_validate_target_info(target_info) ==
    LET found == Contains(Str(TARGET_FIELD_NAME), target_info)
    IN  IF Raised(found) THEN found
        ELSE IF ~Truthy(found.value)
        THEN SpecParsingError(
               [template |-> "'{field_name}' field is required in specification of {class_name}",
                field_name |-> TARGET_FIELD_NAME,
                class_name |-> "ComplexField"])
        ELSE Ok(None)

validate_target_info(cls, target_info) ==
    IF cls = "ComplexField" THEN ComplexField_validate_target_info(target_info)
    ELSE Field_validate_target_info(target_info)

\* Field.parse_spec: Ok((target_info, substitution)), or the exception raised.
parse_spec(cls, spec) ==
    LET pair == is_pair(spec)
    IN  IF Raised(pair) THEN pair
        ELSE LET target_info == IF Truthy(pair.value) THEN Iter(spec)[1] ELSE spec
                 substitution == IF Truthy(pair.value) THEN Iter(spec)[2] ELSE None
                 valid == validate_target_info(cls, target_info)
             IN  IF Raised(valid) THEN SpecParsingError(valid.message)
                 ELSE Ok(Tuple(<<target_info, substitution>>))

NoDehydrator == [cls |-> None, GETTER_PREFIX |-> <<>>, members |-> None]
NoField ==
    [cls |-> "", dehydrator |-> NoDehydrator, target_info |-> None, substitution |-> None]

\* Field.__init__: Ok with the instance, or the exception parse_spec raised.
Field_init(cls, dehydrator, spec) ==
    LET parsed == parse_spec(cls, spec)
    IN  IF Raised(parsed) THEN [out |-> parsed, self |-> NoField]
        ELSE [out |-> Ok(None),
              self |-> [cls |-> cls, dehydrator |-> dehydrator,
                        target_info |-> parsed.value.items[1],
                        substitution |-> parsed.value.items[2]]]

SimpleField_is_relevant(spec) ==
    IF is_string(spec) THEN Ok(True)
    ELSE LET pair == is_pair(spec)
         IN  IF Raised(pair) THEN pair
             ELSE IF Truthy(pair.value)
                     /\ \A i \in 1..Len(Iter(spec)) : is_string(Iter(spec)[i])
             THEN Ok(True)
             ELSE Ok(False)

ComplexField_is_relevant(spec) ==
    IF is_dict(spec) THEN Ok(True)
    ELSE LET pair == is_pair(spec)
         IN  IF Raised(pair) THEN pair
             ELSE IF ~Truthy(pair.value) THEN Ok(False)
             ELSE LET first == GetItem(spec, IntV(0))
                  IN  IF Raised(first) THEN first
                      ELSE IF ~is_dict(first.value) THEN Ok(False)
                      ELSE LET second == GetItem(spec, IntV(1))
                           IN  IF Raised(second) THEN second
                               ELSE IF is_string(second.value) THEN Ok(True)
                               ELSE Ok(False)

is_relevant(cls, spec) ==
    IF cls = "SimpleField" THEN SimpleField_is_relevant(spec)
    ELSE ComplexField_is_relevant(spec)

SimpleField_target(self) == Ok(self.target_info)
ComplexField_target(self) == GetItem(self.target_info, Str(TARGET_FIELD_NAME))
target(self) ==
    IF self.cls = "SimpleField" THEN SimpleField_target(self) ELSE ComplexField_target(self)

ComplexField_is_iterable(self) ==
    DictGet(self.target_info, Str(ITERABLE_FLAG_FIELD_NAME), False)

\* dehydrate.base.Dehydrator, the default of dehydrator_cls.
Dehydrator == Cls("Dehydrator")

\* A variant that defaults to the type of the owning dehydrator.
ComplexField_dehydrator_cls_of_owner(self) ==
    DictGet(self.target_info, Str(DEHYDRATOR_FIELD_NAME), self.dehydrator.cls)

ComplexField_dehydrator_cls(self) ==
    DictGet(self.target_info, Str(DEHYDRATOR_FIELD_NAME), Dehydrator)

ComplexField_fields(self) == DictGet(self.target_info, Str(FIELDS_FIELD_NAME), None)

\* Field.build_key: self.substitution or self.target
build_key(self) ==
    IF Truthy(self.substitution) THEN Ok(self.substitution) ELSE target(self)

\* A variant that looks at the object before the dehydrator.
resolve_target_object_first(self, obj, target_name) ==
    LET dehydrator_getter_name == self.dehydrator.GETTER_PREFIX \o target_name
    IN  IF hasattr(obj, target_name)
        THEN LET object_attribute == getattr(obj, target_name)
             IN  IF callable(object_attribute) THEN Ok(object_attribute)
                 ELSE Ok(partial(attrgetter(object_attribute), obj))
        ELSE IF hasattr(self.dehydrator.members, dehydrator_getter_name)
        THEN Ok(getattr(self.dehydrator.members, dehydrator_getter_name))
        ELSE Ok(None)

\* Field.resolve_target: falls off the end, returning None, when nothing matches.
resolve_target(self, obj, target_name) ==
    LET dehydrator_getter_name == self.dehydrator.GETTER_PREFIX \o target_name
    IN  IF hasattr(self.dehydrator.members, dehydrator_getter_name)
        THEN Ok(getattr(self.dehydrator.members, dehydrator_getter_name))
        ELSE IF hasattr(obj, target_name)
        THEN LET object_attribute == getattr(obj, target_name)
             IN  IF callable(object_attribute) THEN Ok(object_attribute)
                 ELSE Ok(partial(attrgetter(object_attribute), obj))
        ELSE Ok(None)

SimpleField_build_value(self, obj) ==
    LET target_getter == resolve_target(self, obj, SimpleField_target(self).value.str)
    IN  Call(target_getter.value, <<obj>>)

\* dehydrator_cls(fields=fields): the nested dehydrator.
NewDehydrator(cls, fields) == [cls |-> cls, fields |-> fields]
\* dehydrator.dehydrate(obj): the mapping the nested dehydrator produces for obj.
dehydrate(dehydrator, obj) ==
    V("dehydrated", <<>>, 0, <<dehydrator.cls, dehydrator.fields, obj>>, <<>>)

\* map(function, iterable): a list, in the iterable's order.
Map(dehydrator, iterable) ==
    IF ~is_iterable(iterable) THEN Raise("TypeError", Message("object is not iterable"))
    ELSE Ok(List([i \in 1..Len(Iter(iterable)) |-> dehydrate(dehydrator, Iter(iterable)[i])]))

\* A variant whose non-iterable branch dehydrates the target value.
ComplexField_build_value_of_target(self, obj) ==
    LET name == ComplexField_target(self)
    IN  IF Raised(name) THEN name
        ELSE
        LET target_getter == resolve_target(self, obj, name.value.str)
            target_value == Call(target_getter.value, <<obj>>)
        IN  IF Raised(target_value) THEN target_value
            ELSE
            LET cls == ComplexField_dehydrator_cls(self)
                fields == ComplexField_fields(self)
                iterable == ComplexField_is_iterable(self)
                dehydrator == NewDehydrator(cls.value, fields.value)
            IN  IF Truthy(iterable.value) THEN Map(dehydrator, target_value.value)
                ELSE Ok(dehydrate(dehydrator, target_value.value))

ComplexField_build_value(self, obj) ==
    LET name == ComplexField_target(self)
    IN  IF Raised(name) THEN name
        ELSE
        LET target_getter == resolve_target(self, obj, name.value.str)
            target_value == Call(target_getter.value, <<obj>>)
        IN  IF Raised(target_value) THEN target_value
            ELSE
            LET cls == ComplexField_dehydrator_cls(self)
                fields == ComplexField_fields(self)
                iterable == ComplexField_is_iterable(self)
                dehydrator == NewDehydrator(cls.value, fields.value)
            IN  IF Truthy(iterable.value) THEN Map(dehydrator, target_value.value)
                ELSE Ok(dehydrate(dehydrator, obj))

build_value(self, obj) ==
    IF self.cls = "SimpleField" THEN SimpleField_build_value(self, obj)
    ELSE ComplexField_build_value(self, obj)

\* ------------------------------------------------------------ inputs
Age == <<"a", "g", "e">>
Kids == <<"k", "i", "d", "s">>
Name == <<"n", "a", "m", "e">>
Years == <<"y", "e", "a", "r", "s">>
Ab == <<"a", "b">>
Targets == <<"t", "a", "r", "g", "e", "t", "s">>
Ada == <<"A", "d", "a">>

\* Bare-name specs, among them the empty name and a name of two characters.
BareNames == {<<>>, Ab, Age, Kids, Name}
StringSpecs == {Str(n) : n \in BareNames}
Overrides == {<<>>, Years}
NamePairSpecs == {Tuple(<<Str(n), Str(o)>>) : n \in {Age, Kids}, o \in Overrides}

\* Mapping specs: up to MaxEntries entries, in every iteration order.
KeyPool ==
    {TARGET_FIELD_NAME, FIELDS_FIELD_NAME, ITERABLE_FLAG_FIELD_NAME,
     DEHYDRATOR_FIELD_NAME, Targets}
CustomDehydrator == Cls("CustomDehydrator")
EntryValues(key) ==
    CASE key = TARGET_FIELD_NAME -> {Str(Age), Str(Kids)}
      [] key = FIELDS_FIELD_NAME -> {List(<<Str(Name)>>)}
      [] key = ITERABLE_FLAG_FIELD_NAME -> {True, False}
      [] key = DEHYDRATOR_FIELD_NAME -> {CustomDehydrator}
      [] OTHER -> {Str(Kids)}
KeySeqs ==
    {ks \in UNION {[1..n -> KeyPool] : n \in 0..MaxEntries} :
        \A i, j \in 1..Len(ks) : ks[i] = ks[j] => i = j}
AllEntryValues == UNION {EntryValues(key) : key \in KeyPool}
DictsOver(ks) ==
    {Dict([i \in 1..Len(ks) |-> Str(ks[i])], vs) :
        vs \in {v \in [1..Len(ks) -> AllEntryValues] :
                  \A i \in 1..Len(ks) : v[i] \in EntryValues(ks[i])}}
DictSpecs == UNION {DictsOver(ks) : ks \in KeySeqs}
DictPairSpecs == {Tuple(<<d, Str(Years)>>) : d \in DictSpecs}
FieldSpecs == StringSpecs \cup NamePairSpecs \cup DictSpecs \cup DictPairSpecs

\* Raw values that are no field spec.
OtherSpecs ==
    {None, IntV(5), Generator(<<Str(Age), Str(Years)>>), Generator(<<>>),
     SetOf(<<Str(Age), Str(Years)>>), SetOf(<<Str(Age)>>),
     List(<<Str(Age), Str(Years)>>), List(<<IntV(5), Str(Years)>>),
     Tuple(<<Str(Age), IntV(5)>>), Tuple(<<Str(Age), Str(Kids), Str(Years)>>),
     Tuple(<<SetOf(<<Str(Age)>>), Str(Years)>>)}
RawSpecs == FieldSpecs \cup OtherSpecs

FieldTypes == {"SimpleField", "ComplexField"}

\* The objects dehydrated: with no attribute, with `age` a plain attribute
\* (a number, a text) or a method of no argument, or with `kids` a method of
\* one argument returning up to MaxItems children.
Child(i) == Object(i, <<Str(Name)>>, <<Str(<<"c">>)>>)
Children(k) == List([i \in 1..k |-> Child(i)])
Objects ==
    {Object(0, <<>>, <<>>),
     Object(0, <<Str(Age)>>, <<IntV(36)>>),
     Object(0, <<Str(Age)>>, <<Str(Ada)>>),
     Object(0, <<Str(Age)>>, <<Method(0, IntV(36))>>)}
      \cup {Object(0, <<Str(Kids)>>, <<Method(1, Children(k))>>) : k \in 0..MaxItems}

\* The owning dehydrators: the base type and a subtype with its own getter
\* prefix, with override getters for some targets.
GetPrefix == <<"g", "e", "t", "_">>
PersonPrefix == <<"a", "s", "_">>
PersonDehydrator == Cls("PersonDehydrator")
GetterReturn(name) == IF name = Kids THEN Children(MaxItems) ELSE IntV(40)
DehydratorOf(cls, prefix, names) ==
    [cls |-> cls, GETTER_PREFIX |-> prefix,
     members |-> Object(0, [i \in 1..Len(names) |-> Str(prefix \o names[i])],
                        [i \in 1..Len(names) |->
                            DehydratorMethod(prefix \o names[i], GetterReturn(names[i]))])]
Dehydrators ==
    {DehydratorOf(Dehydrator, GetPrefix, <<Kids>>),
     DehydratorOf(PersonDehydrator, PersonPrefix, <<Age>>)}

\* ------------------------------------------------------------ state
VARIABLES
    spec,   \* the raw spec last given to is_relevant or to the constructor
    field,  \* the field instance constructed last, NoField when there is none
    call,   \* the operation called last and its arguments
    out     \* its outcome
vars == <<spec, field, call, out>>

CallOf(op, cls, obj, name) == [op |-> op, cls |-> cls, obj |-> obj, name |-> name]

Init ==
    /\ spec = None
    /\ field = NoField
    /\ call = CallOf("", "", None, <<>>)
    /\ out = Ok(None)

\* cls.is_relevant(s)
IsRelevant(cls, s) ==
    /\ spec' = s
    /\ call' = CallOf("is_relevant", cls, None, <<>>)
    /\ out' = is_relevant(cls, s)
    /\ UNCHANGED field

\* cls(d, s): the one construction of the instance, for a spec the field
\* type claims relevance for
NewField(cls, d, s) ==
    /\ field = NoField
    /\ is_relevant(cls, s) = Ok(True)
    /\ spec' = s
    /\ call' = CallOf("init", cls, None, <<>>)
    /\ field' = Field_init(cls, d, s).self
    /\ out' = Field_init(cls, d, s).out

\* field.build_key()
BuildKey ==
    /\ field # NoField
    /\ call' = CallOf("build_key", field.cls, None, <<>>)
    /\ out' = build_key(field)
    /\ UNCHANGED <<spec, field>>

\* field.target
GetTarget ==
    /\ field # NoField
    /\ call' = CallOf("target", field.cls, None, <<>>)
    /\ out' = target(field)
    /\ UNCHANGED <<spec, field>>

\* field.is_iterable
GetIsIterable ==
    /\ field.cls = "ComplexField"
    /\ call' = CallOf("is_iterable", field.cls, None, <<>>)
    /\ out' = ComplexField_is_iterable(field)
    /\ UNCHANGED <<spec, field>>

\* field.dehydrator_cls
GetDehydratorCls ==
    /\ field.cls = "ComplexField"
    /\ call' = CallOf("dehydrator_cls", field.cls, None, <<>>)
    /\ out' = ComplexField_dehydrator_cls(field)
    /\ UNCHANGED <<spec, field>>

\* field.fields
GetFields ==
    /\ field.cls = "ComplexField"
    /\ call' = CallOf("fields", field.cls, None, <<>>)
    /\ out' = ComplexField_fields(field)
    /\ UNCHANGED <<spec, field>>

\* field.resolve_target(obj, target_name)
ResolveTarget(obj, target_name) ==
    /\ field # NoField
    /\ call' = CallOf("resolve_target", field.cls, obj, target_name)
    /\ out' = resolve_target(field, obj, target_name)
    /\ UNCHANGED <<spec, field>>

\* field.build_value(obj)
BuildValue(obj) ==
    /\ field # NoField
    /\ call' = CallOf("build_value", field.cls, obj, <<>>)
    /\ out' = build_value(field, obj)
    /\ UNCHANGED <<spec, field>>

TargetNames == {Age, Kids}

Next ==
    \/ \E cls \in FieldTypes, d \in Dehydrators, s \in RawSpecs : NewField(cls, d, s)
    \/ BuildKey
    \/ GetTarget
    \/ GetIsIterable
    \/ GetDehydratorCls
    \/ GetFields
    \/ \E obj \in Objects, target_name \in TargetNames : ResolveTarget(obj, target_name)
    \/ \E obj \in Objects : BuildValue(obj)

Spec == Init /\ [][Next]_vars

\* Dispatch alone: the relevance predicates over every raw spec.
DispatchNext == \E cls \in FieldTypes, s \in RawSpecs : IsRelevant(cls, s)

DispatchSpec == Init /\ [][DispatchNext]_vars

\* ------------------------------------------------------------ claims
HasKey(mapping, key) == InSeq(Str(key), mapping.items)
Entry(mapping, key) == mapping.vals[CHOOSE i \in 1..Len(mapping.items) : mapping.items[i] = Str(key)]
\* The dehydrator of the field has the override getter for name.
HasOverride(name) == hasattr(field.dehydrator.members, field.dehydrator.GETTER_PREFIX \o name)
Override(name) == getattr(field.dehydrator.members, field.dehydrator.GETTER_PREFIX \o name)
\* The spec is a pair (name, override) of texts, given as a tuple.
IsNamePair(s) ==
    s.kind = "tuple" /\ Len(s.items) = 2 /\ is_string(s.items[1]) /\ is_string(s.items[2])
\* The mapping of a ComplexField spec: the spec, or the first of (mapping, override).
IsMappingPair(s) == s.kind = "tuple" /\ Len(s.items) = 2 /\ is_dict(s.items[1])
MappingOf(s) == IF is_dict(s) THEN s ELSE s.items[1]

\* C1: build_key() of a field built from a bare-name spec s is s, whatever
\* the length of s (two characters included), and of a field built from a
\* pair (name, override) is the override.
C1_BuildKeyOfSpec ==
    (call.op = "build_key" /\ call.cls = "SimpleField") =>
        /\ is_string(spec) => out = Ok(spec)
        /\ IsNamePair(spec) => out = Ok(spec.items[2])

\* C2: for every bare-name spec SimpleField.is_relevant is true and
\* ComplexField.is_relevant is false; for every mapping spec with a `target`
\* entry, of any number of entries, ComplexField.is_relevant is true and
\* SimpleField.is_relevant is false.
C2_DispatchExclusive ==
    call.op = "is_relevant" =>
        /\ is_string(spec) => out = Ok(Bool(call.cls = "SimpleField"))
        /\ (is_dict(spec) /\ HasKey(spec, TARGET_FIELD_NAME)) =>
               out = Ok(Bool(call.cls = "ComplexField"))

\* C3: when obj has a plain attribute n with value v and the dehydrator has
\* no override getter for n, build_value(obj) of the SimpleField built from
\* the spec n returns v and does not raise.
C3_PlainAttributeValue ==
    (/\ call.op = "build_value" /\ call.cls = "SimpleField"
     /\ is_string(spec) /\ field.target_info = spec
     /\ hasattr(call.obj, spec.str) /\ ~callable(getattr(call.obj, spec.str))
     /\ ~HasOverride(spec.str))
        => out = Ok(getattr(call.obj, spec.str))

\* C4: when neither the dehydrator has the override getter nor the object a
\* member of the target name, resolve_target raises TargetResolutionError
\* and build_value raises the same error.
C4_ResolutionError ==
    /\ (call.op = "resolve_target" /\ ~HasOverride(call.name) /\ ~hasattr(call.obj, call.name))
          => out.exc = "TargetResolutionError"
    /\ (call.op = "build_value" /\ ~Raised(target(field))
          /\ ~HasOverride(target(field).value.str)
          /\ ~hasattr(call.obj, target(field).value.str))
          => out.exc = "TargetResolutionError"

\* C5: resolve_target(obj, target_name) returns the dehydrator's member
\* GETTER_PREFIX + target_name whenever the dehydrator has it, whether or not
\* obj has a member target_name; the object's member is used only when the
\* dehydrator has no such override.
C5_GetterPriority ==
    call.op = "resolve_target" =>
        /\ HasOverride(call.name) => out = Ok(Override(call.name))
        /\ (~Raised(out) /\ out.value.kind \in {"method", "partial"}) =>
               ~HasOverride(call.name) /\ hasattr(call.obj, call.name)
C5_Witness ==
    /\ call.op = "resolve_target"
    /\ HasOverride(call.name) /\ hasattr(call.obj, call.name)
    /\ out = Ok(Override(call.name))
    /\ out.value.kind = "dehydrator_method"

\* C6: constructing a ComplexField from a mapping spec with no `target`
\* entry, bare or first of a (mapping, override) pair, raises SpecParsingError
\* with a message naming `target`, and produces no instance.
C6_MissingTargetFails ==
    (/\ call.op = "init" /\ call.cls = "ComplexField"
     /\ is_dict(spec) \/ IsMappingPair(spec)
     /\ ~HasKey(MappingOf(spec), TARGET_FIELD_NAME))
        => /\ out.exc = "SpecParsingError"
           /\ out.message.field_name = TARGET_FIELD_NAME
           /\ field = NoField

\* C7: a ComplexField built from a bare mapping spec with a `target` entry,
\* of any number of entries, has target_info the whole mapping and no
\* substitution; target, fields and is_iterable are the mapping's entries
\* (is_iterable false when absent) and build_key() is the `target` entry.
C7_BareMappingParsed ==
    (/\ call.cls = "ComplexField" /\ is_dict(spec) /\ HasKey(spec, TARGET_FIELD_NAME))
        => /\ call.op = "init" =>
                 out = Ok(None) /\ field.target_info = spec /\ field.substitution = None
           /\ call.op \in {"target", "build_key"} => out = Ok(Entry(spec, TARGET_FIELD_NAME))
           /\ call.op = "fields" =>
                 out = Ok(IF HasKey(spec, FIELDS_FIELD_NAME)
                          THEN Entry(spec, FIELDS_FIELD_NAME) ELSE None)
           /\ call.op = "is_iterable" =>
                 out = Ok(IF HasKey(spec, ITERABLE_FLAG_FIELD_NAME)
                          THEN Entry(spec, ITERABLE_FLAG_FIELD_NAME) ELSE False)

\* The nested dehydrator of a field whose target_info is a mapping.
NestedOf(f) ==
    NewDehydrator(ComplexField_dehydrator_cls(f).value, ComplexField_fields(f).value)
\* The getter resolved for the field's target, invoked on obj.
TargetValueOf(f, obj) ==
    Call(resolve_target(f, obj, ComplexField_target(f).value.str).value, <<obj>>)

\* C8: ComplexField.build_value(obj), with target_value the resolved getter
\* invoked on obj and d the nested dehydrator: when is_iterable is true, the
\* sequence of d.dehydrate(e) for the elements e of target_value, of the same
\* length and order; otherwise d.dehydrate(obj), of obj and not of
\* target_value.  An exception of the getter is the outcome.
C8_BuildValueReference ==
    (/\ call.op = "build_value" /\ call.cls = "ComplexField"
     /\ is_dict(field.target_info))
        => LET target_value == TargetValueOf(field, call.obj)
               d == NestedOf(field)
           IN  IF Raised(target_value) THEN out = target_value
               ELSE IF ComplexField_is_iterable(field).value = True
               THEN is_iterable(target_value.value) =>
                      /\ ~Raised(out) /\ out.value.kind = "list"
                      /\ Len(out.value.items) = Len(Iter(target_value.value))
                      /\ \A i \in 1..Len(out.value.items) :
                            out.value.items[i] = dehydrate(d, Iter(target_value.value)[i])
               ELSE out = Ok(dehydrate(d, call.obj))
C8_Witness ==
    /\ call.op = "build_value" /\ call.cls = "ComplexField"
    /\ is_dict(field.target_info)
    /\ ComplexField_is_iterable(field).value = True
    /\ ~Raised(out) /\ Len(out.value.items) = MaxItems
    /\ out.value.items[1] # out.value.items[MaxItems]

\* C9, as stated: with no `dehydrator` entry dehydrator_cls is the type of
\* the dehydrator that owns the field; with the entry, that entry.
C9_TypeOfOwner ==
    (call.op = "dehydrator_cls" /\ is_dict(field.target_info)) =>
        out = Ok(IF HasKey(field.target_info, DEHYDRATOR_FIELD_NAME)
                 THEN Entry(field.target_info, DEHYDRATOR_FIELD_NAME)
                 ELSE field.dehydrator.cls)
\* C9, amended: with no `dehydrator` entry dehydrator_cls is the base
\* Dehydrator type, whatever the type of the owning dehydrator; with the
\* entry, that entry.
C9_BaseDehydrator ==
    (call.op = "dehydrator_cls" /\ is_dict(field.target_info)) =>
        out = Ok(IF HasKey(field.target_info, DEHYDRATOR_FIELD_NAME)
                 THEN Entry(field.target_info, DEHYDRATOR_FIELD_NAME)
                 ELSE Cls("Dehydrator"))
C9_Witness ==
    /\ call.op = "dehydrator_cls" /\ is_dict(field.target_info)
    /\ ~HasKey(field.target_info, DEHYDRATOR_FIELD_NAME)
    /\ field.dehydrator.cls = PersonDehydrator
    /\ out = Ok(Cls("Dehydrator"))

\* C10: is_relevant of SimpleField and of ComplexField returns true or false
\* for every raw spec value, and never raises.
C10_RelevanceTotal ==
    call.op = "is_relevant" => out \in {Ok(True), Ok(False)}

====
